---- MODULE Spec2Model ----
(***************************************************************************)
(* Model of the adaptive retrieval escalation engine of the Web-Scrapper   *)
(* repository: the escalation controller and its CSV store                 *)
(* (src/proxy_scraper.py), the prober / strategy recommender               *)
(* (src/test_site_access.py), the standard scraper (src/batch_scraper.py), *)
(* the lookups of src/generate_combined_report.py and the threads of the   *)
(* front end (src/unified_scraper.py).                                     *)
(*                                                                         *)
(* Python dicts are functions from key strings to values; a key that was   *)
(* never assigned is absent from the DOMAIN, and dict.get(k, d) is Get.    *)
(* URLs are records [scheme, host] with host a sequence of labels, so that *)
(* clean_url, get_domain and the candidate list of method 5 are computed.  *)
(* CSV cells are text: what pandas reads and writes is computed by         *)
(* ColumnKind / WriteCell, following read_csv's column type inference.     *)
(***************************************************************************)
EXTENDS Integers, Sequences, FiniteSets, TLC

VARIABLES
    pc,        \* position of scrape_url_with_multiple_attempts
    url,       \* the cleaned URL of the current run
    result,    \* the dict `result` of the current run
    altResult, \* the dict `alt_result` of the stealth retry
    returned,  \* the dict returned by the run
    invoked,   \* history: adapter invocations of the current run, in order
    saves,     \* history: return values of the run's save_data calls, in order
    run,       \* history: number of the current run
    file,      \* state of the backing file self.csv_file
    store,     \* data rows of the backing file, as text cells
    results,   \* the counters of process_challenging_sites
    head_checks, \* history of the last method 5 call: the HEAD requests it
               \* sent, in order, and the candidates that answer below 400
    browsers,  \* number of browser instances launched and not released
    ppc,       \* position of test_site
    site,      \* the URL test_site was called with
    request_result,  \* dict returned by test_with_requests (+ original_url)
    browser_result,  \* dict returned by test_with_playwright
    rendered,  \* history: what the browser navigation of test_with_playwright met
    report,    \* rows returned by test_site, in order
    scraped,   \* what SmartScraper.scrape_with_playwright returned
    delays,    \* history: time.sleep calls of the current run
    accessible_sites, \* scrape_from_report: the rows it works through
    batch_pc,         \* position of scrape_from_report
    batch_results,    \* its `results` counters, and what it returned
    scraped_data,     \* rows of the standard scraper's file scraped_data.csv
    threads,          \* position of each pipeline thread started so far
    running,          \* UnifiedScraper.running
    progress,         \* UnifiedScraper.progress
    start_button,     \* state of the Start button
    view_report_button \* state of the View Report button

runVars   == <<pc, url, result, altResult, returned, invoked, saves, run, file, store,
               results, head_checks, delays>>
probeVars == <<ppc, site, request_result, browser_result, rendered, report, scraped>>
batchVars == <<accessible_sites, batch_pc, batch_results, scraped_data>>
guiVars   == <<threads, running, progress, start_button, view_report_button>>
vars      == <<pc, url, result, altResult, returned, invoked, saves, run, file, store,
               results, head_checks, delays, browsers,
               ppc, site, request_result, browser_result, rendered, report, scraped,
               accessible_sites, batch_pc, batch_results, scraped_data,
               threads, running, progress, start_button, view_report_button>>

----------------------------------------------------------------------------
(* Bounds of the model *)

MaxRuns == 2
MaxSites == 1

\* pipeline threads started in a behaviour
MaxThreads == 3

----------------------------------------------------------------------------
(* Python values *)

\* None, in the sort of URLs (the only values it is compared with)
None == [scheme |-> "None", host |-> <<>>]

\* dict.get(k, default)
Get(d, k, default) == IF k \in DOMAIN d THEN d[k] ELSE default

\* no dict yet
NoDict == [unset |-> TRUE]

----------------------------------------------------------------------------
(* URLs *)

Url(s, h) == [scheme |-> s, host |-> h]

\* the worklist's URLs as written in the report (a URL may lack its scheme)
URLS == { Url("", <<"www", "shop", "com">>),
          Url("https", <<"www", "shop", "com">>),
          Url("http", <<"dead-example", "test">>) }

\* the worklist process_challenging_sites read from the report: its i-th
\* site.  The first two entries are one site written without and with its
\* scheme.
sites(i) ==
    CASE i % 3 = 1 -> Url("", <<"www", "shop", "com">>)
      [] i % 3 = 2 -> Url("https", <<"www", "shop", "com">>)
      [] i % 3 = 0 -> Url("http", <<"dead-example", "test">>)

\* where a server may redirect a request for u
RedirectOf(u) == Url("https", <<"www">> \o u.host)

FinalUrls(u) == {u, RedirectOf(u)}

\* the URLs that may answer an existence check (each is a candidate of
\* alt_domains for one of URLS)
LiveUrls == { Url("https", <<"www", "dead-example", "test">>),
              Url("https", <<"www", "shop", "com">>) }

clean_url(u) == IF u.scheme \in {"http", "https"} THEN u ELSE Url("https", u.host)

\* urlparse(url).netloc of a URL that has a scheme
get_domain(u) == u.host

\* domain.replace('www.', ''): a label "www" followed by a dot disappears
\* (no other label of the model ends in "www")
RECURSIVE ReplaceWww(_)
ReplaceWww(h) ==
    IF Len(h) <= 1 THEN h
    ELSE IF Head(h) = "www" THEN ReplaceWww(Tail(h))
         ELSE <<Head(h)>> \o ReplaceWww(Tail(h))

\* the list alt_domains of method5_domain_verification
alt_domains(domain) ==
    LET nowww == ReplaceWww(domain)
        base  == <<Head(domain)>>      \* domain.split('.')[0]
    IN  << Url("https", domain),
           Url("http", domain),
           Url("https", <<"www">> \o nowww),
           Url("http", <<"www">> \o nowww) >>
        \o (IF Len(domain) >= 2          \* '.' in domain
            THEN << Url("https", base \o <<"com">>),
                    Url("https", <<"www">> \o base \o <<"com">>),
                    Url("https", base \o <<"net">>),
                    Url("https", <<"www">> \o base \o <<"net">>),
                    Url("https", base \o <<"org">>),
                    Url("https", <<"www">> \o base \o <<"org">>) >>
            ELSE <<>>)

----------------------------------------------------------------------------
(* CSV text: what pandas writes for a value and reads from a cell *)

\* str(n), the text to_csv writes for an integer
DecimalText(n) ==
    CASE n = 0 -> "0" [] n = 1 -> "1" [] n = 2 -> "2" [] n = 3 -> "3"
      [] n = 4 -> "4" [] n = 5 -> "5" [] n = 6 -> "6"
      [] n = 200 -> "200" [] n = 404 -> "404"

\* the cells read_csv parses as an integer, and the integer
IntTexts == {"0", "1", "2", "3", "4", "5", "6", "200", "404"}

IntOf(t) ==
    CASE t = "0" -> 0 [] t = "1" -> 1 [] t = "2" -> 2 [] t = "3" -> 3
      [] t = "4" -> 4 [] t = "5" -> 5 [] t = "6" -> 6
      [] t = "200" -> 200 [] t = "404" -> 404

\* the cells read_csv parses as a float but not as an integer
FloatTexts == {"0.0", "1.0", "2.0", "3.0", "4.0", "5.0", "6.0", "200.0", "404.0"}

\* repr of the float a numeric cell parses to, the text to_csv writes for it
FloatRepr(t) ==
    CASE t \in FloatTexts -> t
      [] t = "0" -> "0.0" [] t = "1" -> "1.0" [] t = "2" -> "2.0" [] t = "3" -> "3.0"
      [] t = "4" -> "4.0" [] t = "5" -> "5.0" [] t = "6" -> "6.0"
      [] t = "200" -> "200.0" [] t = "404" -> "404.0"

\* cells read_csv turns into NaN (its default na_values), written back as ''
NaTexts == {"", "NA", "N/A", "n/a", "NULL", "null", "NaN", "nan", "None", "<NA>", "#N/A"}

\* dtype read_csv infers for a column from its cells
ColumnKind(cells) ==
    LET present == {c \in cells : c \notin NaTexts}
    IN  IF present = {} THEN "float64"
        ELSE IF present \subseteq IntTexts
             THEN (IF present = cells THEN "int64" ELSE "float64")
        ELSE IF present \subseteq (IntTexts \cup FloatTexts) THEN "float64"
        ELSE "object"

\* text to_csv writes for a cell that was read into a column of dtype kind
WriteCell(kind, t) ==
    IF t \in NaTexts THEN ""
    ELSE IF kind = "float64" THEN FloatRepr(t)
    ELSE t

\* the value read_csv gives back for a text cell: NaN for the cells it takes
\* as missing, the text otherwise
ReadCell(t) ==
    IF t \in NaTexts THEN [missing |-> TRUE, text |-> ""]
    ELSE [missing |-> FALSE, text |-> t]

\* the columns whose cells are free text or numbers
TextColumns == {"title", "successful_method", "attempt_number", "status_code", "error_message"}

\* pd.read_csv followed by to_csv, on the rows already in the file
ReadWrite(rows) ==
    LET kind(k) == ColumnKind({rows[i][k] : i \in 1..Len(rows)})
    IN  [i \in 1..Len(rows) |->
            [k \in DOMAIN rows[i] |->
                IF k \in TextColumns THEN WriteCell(kind(k), rows[i][k]) ELSE rows[i][k]]]

----------------------------------------------------------------------------
(* The store: ProxyScraper.save_data *)

\* '' in a URL column
EmptyUrl == Url("", <<>>)

\* self.session_id: set once when the ProxyScraper is constructed, from the
\* clock to the second; process_challenging_sites constructs one scraper for
\* the whole worklist
session_id == "proxy_session"

\* NewRow reading the ordinal under a key no adapter sets
NewRow_NoOrdinal(u, data, r) ==
    [run               |-> r,
     session_id        |-> session_id,
     url               |-> u,
     final_url         |-> Get(data, "final_url", EmptyUrl),
     title             |-> Get(data, "title", ""),
     successful_method |-> Get(data, "successful_method", ""),
     attempt_number    |-> DecimalText(Get(data, "attempt", 0)),
     status_code       |-> DecimalText(Get(data, "status_code", 0)),
     error_message     |-> Get(data, "error_message", "")]

\* the record save_data builds from data, as the text to_csv writes for it;
\* run is a history field, not a column
NewRow(u, data, r) ==
    [run               |-> r,
     session_id        |-> session_id,
     url               |-> u,
     final_url         |-> Get(data, "final_url", EmptyUrl),
     title             |-> Get(data, "title", ""),
     successful_method |-> Get(data, "successful_method", ""),
     attempt_number    |-> DecimalText(Get(data, "attempt_number", 0)),
     status_code       |-> DecimalText(Get(data, "status_code", 0)),
     error_message     |-> Get(data, "error_message", "")]

\* what the file system does when to_csv writes the file
WriteOutcomes == {"ok", "denied", "truncated"}

\* save_data(url, data) on backing file f with rows s, under write outcome w:
\* the file afterwards and the value returned
save_data(f, s, u, data, r, w) ==
    IF f \in {"empty", "corrupt"}
    THEN \* setup_csv leaves an existing file alone; read_csv raises
         [file |-> f, store |-> s, ok |-> FALSE]
    ELSE \* a missing file (s is empty) is created by setup_csv, then read
         CASE w = "ok" ->
                [file |-> "ok", store |-> ReadWrite(s) \o <<NewRow(u, data, r)>>, ok |-> TRUE]
           [] w = "denied" ->      \* the file cannot be opened for writing
                [file |-> f, store |-> s, ok |-> FALSE]
           [] w = "truncated" ->   \* opened (and so emptied), then the write fails
                [file |-> "empty", store |-> <<>>, ok |-> FALSE]

----------------------------------------------------------------------------
(* What the network answers *)

\* str(e) of a connection, timeout, TLS or navigation exception
TransportErrors == {"Connection timed out"}

Statuses == {200, 404}

\* page titles; "NA" and "404" are titles real pages carry
Titles == {"Home", "NA", "404"}

\* pieces of text a page may contain
PageTexts == { {"Welcome"}, {"Welcome", "CAPTCHA"} }

\* HttpErrorText leaving the message empty
HttpErrorText_Empty(s) == ""

\* f"HTTP Error: {status}"
HttpErrorText(s) == CASE s = 404 -> "HTTP Error: 404"

\* outcome of one HTTP request or one browser navigation for u during an
\* escalation run: an exception, or a response (here always served at u)
Outcomes(u) ==
    {[kind |-> "error", msg |-> m] : m \in TransportErrors}
    \cup {[kind |-> "response", status |-> st, url |-> u, title |-> t, content |-> c] :
            st \in Statuses, t \in Titles, c \in PageTexts}

\* outcome of a browser adapter's work on u: as above, or a navigation that
\* was answered followed by a page call (title, evaluate, screenshot) raising
BrowserOutcomes(u) ==
    Outcomes(u)
    \cup {[kind |-> "broken", status |-> st, url |-> u, msg |-> m] :
            st \in Statuses, m \in TransportErrors}

----------------------------------------------------------------------------
(* Transport adapters: the dict `data` each returns.  @@ keeps the left     *)
(* value of a key, as a later assignment to data[k] overrides the initial.  *)

method1_simple_requests(u, out, attempt) ==
    LET data == [successful_method |-> "simple_requests", attempt_number |-> attempt,
                 proxy_used |-> "none", final_url |-> u]
    IN  IF out.kind = "error"
        THEN [success |-> FALSE, error_message |-> out.msg] @@ data
        ELSE IF out.status >= 400
        THEN [status_code |-> out.status, final_url |-> out.url,
              success |-> FALSE, error_message |-> HttpErrorText(out.status)] @@ data
        ELSE [status_code |-> out.status, final_url |-> out.url,
              title |-> out.title, content_summary |-> out.content,
              success |-> TRUE] @@ data

method2_enhanced_requests(u, out, attempt) ==
    LET data == [successful_method |-> "enhanced_requests", attempt_number |-> attempt,
                 proxy_used |-> "none", final_url |-> u]
    IN  IF out.kind = "error"
        THEN [success |-> FALSE, error_message |-> out.msg] @@ data
        ELSE IF out.status >= 400
        THEN [status_code |-> out.status, final_url |-> out.url,
              success |-> FALSE, error_message |-> HttpErrorText(out.status)] @@ data
        ELSE [status_code |-> out.status, final_url |-> out.url,
              title |-> out.title, content_summary |-> out.content,
              success |-> TRUE] @@ data

\* sync_playwright's exit leaving the launched browsers running
sync_playwright_exit_KeepsBrowsers(open) == open

\* leaving the `with sync_playwright() as p:` block stops the Playwright
\* driver, which ends the browsers launched through it: none of the `open`
\* ones is left
sync_playwright_exit(open) == 0

\* browser instances a call of method 3 leaves behind: one is launched,
\* browser.close() is reached only at the end of the try body, and the
\* with block is left on every path
method3_browsers(out) == sync_playwright_exit(IF out.kind = "response" THEN 0 ELSE 1)

method4_browsers(out) == sync_playwright_exit(IF out.kind = "response" THEN 0 ELSE 1)

\* the browser adapters do not look at the status of the response
method3_playwright_basic(u, out, attempt) ==
    LET data == [successful_method |-> "playwright_basic", attempt_number |-> attempt,
                 proxy_used |-> "none", final_url |-> u, screenshot_path |-> ""]
    IN  IF out.kind = "error"
        THEN [success |-> FALSE, error_message |-> out.msg] @@ data
        ELSE IF out.kind = "broken"
        THEN [status_code |-> out.status, final_url |-> out.url,
              success |-> FALSE, error_message |-> out.msg] @@ data
        ELSE [status_code |-> out.status, final_url |-> out.url,
              title |-> out.title, content_summary |-> out.content,
              screenshot_path |-> "png", success |-> TRUE] @@ data

method4_playwright_stealth(u, out, attempt) ==
    LET data == [successful_method |-> "playwright_stealth", attempt_number |-> attempt,
                 proxy_used |-> "none", final_url |-> u, screenshot_path |-> ""]
    IN  IF out.kind = "error"
        THEN [success |-> FALSE, error_message |-> out.msg] @@ data
        ELSE IF out.kind = "broken"
        THEN [status_code |-> out.status, final_url |-> out.url,
              success |-> FALSE, error_message |-> out.msg] @@ data
        ELSE [status_code |-> out.status, final_url |-> out.url,
              title |-> out.title, content_summary |-> out.content,
              screenshot_path |-> "png", success |-> TRUE] @@ data

\* the candidates method 5 checks for u, as a set
Candidates(u) ==
    LET cands == alt_domains(get_domain(u)) IN {cands[i] : i \in 1..Len(cands)}

\* FirstResponder taking the last candidate that answers
FirstResponder_Last(cands, alive) ==
    LET hits == {i \in 1..Len(cands) : cands[i] \in alive}
    IN  IF hits = {} THEN 0 ELSE CHOOSE i \in hits : \A j \in hits : i >= j

\* index of the first candidate whose HEAD request answers below 400, 0 if none
FirstResponder(cands, alive) ==
    LET hits == {i \in 1..Len(cands) : cands[i] \in alive}
    IN  IF hits = {} THEN 0 ELSE CHOOSE i \in hits : \A j \in hits : i <= j

\* the HEAD requests of the loop over alt_domains: it goes down the list
\* and returns at the first answer below 400
method5_requests(u, alive) ==
    LET cands == alt_domains(get_domain(u))
        k     == FirstResponder(cands, alive)
    IN  IF k > 0 THEN SubSeq(cands, 1, k) ELSE cands

\* before any call of method 5
NoChecks == [sent |-> <<>>, answered |-> {}]

method5_domain_verification(u, alive, attempt) ==
    LET data  == [successful_method |-> "domain_verification", attempt_number |-> attempt,
                  proxy_used |-> "none", final_url |-> u]
        cands == alt_domains(get_domain(u))
        k     == FirstResponder(cands, alive)
    IN  IF k > 0
        THEN [final_url |-> cands[k], success |-> TRUE,
              content_summary |-> {"Domain verification found alternative URL"}] @@ data
        ELSE [success |-> FALSE,
              error_message |-> "Domain verification failed to find alternative URLs"] @@ data

----------------------------------------------------------------------------
(* The escalation controller: ProxyScraper.scrape_url_with_multiple_attempts *)

\* CombinedResult without the relabelling
CombinedResult_Unlabelled(a) == a

\* `alt_result['successful_method'] = 'domain_verification+playwright_stealth'`
CombinedResult(a) ==
    [a EXCEPT !.successful_method = "domain_verification+playwright_stealth"]

\* ExhaustedResult without the relabelling
ExhaustedResult_Unlabelled(r) == r

\* `result['successful_method'] = 'none'`
ExhaustedResult(r) == [r EXCEPT !.successful_method = "none"]

\* one adapter invocation, for the history
Invocation(m, u, k, r) ==
    [method |-> m, url |-> u, attempt |-> k, success |-> Get(r, "success", FALSE)]

\* self.save_data(url, data), the file system answering w
Save(data, w) ==
    LET after == save_data(file, store, url, data, run, w)
    IN  /\ file' = after.file
        /\ store' = after.store
        /\ saves' = Append(saves, after.ok)

NoSave == UNCHANGED <<file, store, saves>>

\* label of the position after rung k fails, k in 1..4
NextRung(k) == CASE k = 1 -> "m2" [] k = 2 -> "m3" [] k = 3 -> "m4" [] k = 4 -> "m5"

\* Rung going on to the next rung after a success
Rung_KeepsClimbing(k, r) ==
    /\ result' = r
    /\ invoked' = Append(invoked, Invocation(k, url, k, r))
    /\ IF Get(r, "success", FALSE)
       THEN \E w \in WriteOutcomes : Save(r, w)
       ELSE NoSave
    /\ returned' = returned
    /\ pc' = NextRung(k)
    \* time.sleep(random.randint(..)) after a rung that failed
    /\ delays' = IF Get(r, "success", FALSE) THEN delays ELSE delays + 1
    /\ UNCHANGED <<url, altResult, run, results, head_checks>>
    /\ UNCHANGED <<probeVars, batchVars, guiVars>>

\* Rung saving the attempt of a failed rung as well
Rung_SavesEveryAttempt(k, r) ==
    /\ result' = r
    /\ invoked' = Append(invoked, Invocation(k, url, k, r))
    /\ \E w \in WriteOutcomes : Save(r, w)
    /\ IF Get(r, "success", FALSE)
       THEN /\ returned' = r
            /\ pc' = "returned"
       ELSE /\ returned' = returned
            /\ pc' = NextRung(k)
    \* time.sleep(random.randint(..)) after a rung that failed
    /\ delays' = IF Get(r, "success", FALSE) THEN delays ELSE delays + 1
    /\ UNCHANGED <<url, altResult, run, results, head_checks>>
    /\ UNCHANGED <<probeVars, batchVars, guiVars>>

\* rungs 1-4: `result = self.methodK(url, attempt=k)`, and on success
\* save_data and return; otherwise sleep and go on to the next rung
Rung(k, r) ==
    /\ result' = r
    /\ invoked' = Append(invoked, Invocation(k, url, k, r))
    /\ IF Get(r, "success", FALSE)
       THEN /\ \E w \in WriteOutcomes : Save(r, w)
            /\ returned' = r
            /\ pc' = "returned"
       ELSE /\ NoSave
            /\ returned' = returned
            /\ pc' = NextRung(k)
    \* time.sleep(random.randint(..)) after a rung that failed
    /\ delays' = IF Get(r, "success", FALSE) THEN delays ELSE delays + 1
    /\ UNCHANGED <<url, altResult, run, results, head_checks>>
    /\ UNCHANGED <<probeVars, batchVars, guiVars>>

\* the result of the current run has been counted
Counted == results.success + results.failed = run

\* process_challenging_sites calls scrape_url_with_multiple_attempts(url) for
\* the next site of its worklist
StartRun ==
    /\ pc = "idle" \/ (pc = "returned" /\ Counted)
    /\ run < MaxRuns
    /\ url' = clean_url(sites(run + 1))
    /\ pc' = "m1"
    /\ run' = run + 1
    /\ result' = NoDict
    /\ altResult' = NoDict
    /\ returned' = NoDict
    /\ invoked' = <<>>
    /\ saves' = <<>>
    /\ head_checks' = NoChecks
    /\ delays' = 0
    /\ UNCHANGED <<file, store, results, browsers>>
    /\ UNCHANGED <<probeVars, batchVars, guiVars>>

\* process_challenging_sites updates its counters with the returned result
CountResult ==
    /\ pc = "returned"
    /\ ~Counted
    /\ results' =
          IF Get(returned, "success", FALSE)
          THEN LET method == Get(returned, "successful_method", "unknown")
               IN  [results EXCEPT
                      !.success = @ + 1,
                      !.methods = (method :> (Get(@, method, 0) + 1)) @@ @]
          ELSE [results EXCEPT !.failed = @ + 1]
    /\ UNCHANGED <<pc, url, result, altResult, returned, invoked, saves, run, file, store,
                   head_checks, delays, browsers>>
    /\ UNCHANGED <<probeVars, batchVars, guiVars>>

\* the backing file is removed after the scraper was constructed and before
\* its first run
FileRemoved ==
    /\ pc = "idle"
    /\ file # "missing"
    /\ file' = "missing"
    /\ store' = <<>>
    /\ UNCHANGED <<pc, url, result, altResult, returned, invoked, saves, run, results,
                   head_checks, delays, browsers>>
    /\ UNCHANGED <<probeVars, batchVars, guiVars>>

Attempt1 ==
    /\ pc = "m1"
    /\ \E out \in Outcomes(url) : Rung(1, method1_simple_requests(url, out, 1))
    /\ UNCHANGED browsers

Attempt2 ==
    /\ pc = "m2"
    /\ \E out \in Outcomes(url) : Rung(2, method2_enhanced_requests(url, out, 2))
    /\ UNCHANGED browsers

Attempt3 ==
    /\ pc = "m3"
    /\ \E out \in BrowserOutcomes(url) :
          /\ Rung(3, method3_playwright_basic(url, out, 3))
          /\ browsers' = browsers + method3_browsers(out)

Attempt4 ==
    /\ pc = "m4"
    /\ \E out \in BrowserOutcomes(url) :
          /\ Rung(4, method4_playwright_stealth(url, out, 4))
          /\ browsers' = browsers + method4_browsers(out)

\* rung 5: a found alternative is saved and then scraped; when none is found
\* the result is relabelled 'none', saved and returned
Attempt5 ==
    /\ pc = "m5"
    /\ \E alive \in SUBSET LiveUrls, w \in WriteOutcomes :
          LET r == method5_domain_verification(url, alive, 5)
          IN  /\ head_checks' = [sent     |-> method5_requests(url, alive),
                                   answered |-> Candidates(url) \cap alive]
              /\ invoked' = Append(invoked, Invocation(5, url, 5, r))
              /\ IF Get(r, "success", FALSE)
                 THEN /\ result' = r
                      /\ Save(r, w)
                      /\ returned' = returned
                      /\ pc' = "alt"
                 ELSE /\ result' = ExhaustedResult(r)
                      /\ Save(result', w)
                      /\ returned' = result'
                      /\ pc' = "returned"
    /\ UNCHANGED <<url, altResult, run, results, browsers, delays>>
    /\ UNCHANGED <<probeVars, batchVars, guiVars>>

\* AltAttempt returning the failed result of the stealth retry
AltAttempt_ReturnsRetry ==
    /\ pc = "alt"
    /\ LET alt_url == result.final_url
       IN  \E out \in BrowserOutcomes(alt_url) :
             LET a == method4_playwright_stealth(alt_url, out, 5)
             IN  /\ invoked' = Append(invoked, Invocation(4, alt_url, 5, a))
                 /\ browsers' = browsers + method4_browsers(out)
                 /\ IF Get(a, "success", FALSE)
                    THEN /\ altResult' = CombinedResult(a)
                         /\ \E w \in WriteOutcomes : Save(altResult', w)
                         /\ returned' = altResult'
                    ELSE /\ altResult' = a
                         /\ NoSave
                         /\ returned' = a
    /\ pc' = "returned"
    /\ UNCHANGED <<url, result, run, results, head_checks, delays>>
    /\ UNCHANGED <<probeVars, batchVars, guiVars>>

\* AltAttempt saving the retry's result whether it succeeded or not
AltAttempt_SavesFailedRetry ==
    /\ pc = "alt"
    /\ LET alt_url == result.final_url
       IN  \E out \in BrowserOutcomes(alt_url) :
             LET a == method4_playwright_stealth(alt_url, out, 5)
             IN  /\ invoked' = Append(invoked, Invocation(4, alt_url, 5, a))
                 /\ browsers' = browsers + method4_browsers(out)
                 /\ IF Get(a, "success", FALSE)
                    THEN /\ altResult' = CombinedResult(a)
                         /\ \E w \in WriteOutcomes : Save(altResult', w)
                         /\ returned' = altResult'
                    ELSE /\ altResult' = a
                         /\ \E w \in WriteOutcomes : Save(a, w)
                         /\ returned' = result
    /\ pc' = "returned"
    /\ UNCHANGED <<url, result, run, results, head_checks, delays>>
    /\ UNCHANGED <<probeVars, batchVars, guiVars>>

\* `alt_result = self.method4_playwright_stealth(alt_url, attempt=5)`
AltAttempt ==
    /\ pc = "alt"
    /\ LET alt_url == result.final_url
       IN  \E out \in BrowserOutcomes(alt_url) :
             LET a == method4_playwright_stealth(alt_url, out, 5)
             IN  /\ invoked' = Append(invoked, Invocation(4, alt_url, 5, a))
                 /\ browsers' = browsers + method4_browsers(out)
                 /\ IF Get(a, "success", FALSE)
                    THEN /\ altResult' = CombinedResult(a)
                         /\ \E w \in WriteOutcomes : Save(altResult', w)
                         /\ returned' = altResult'
                    ELSE /\ altResult' = a
                         /\ NoSave
                         /\ returned' = result
    /\ pc' = "returned"
    /\ UNCHANGED <<url, result, run, results, head_checks, delays>>
    /\ UNCHANGED <<probeVars, batchVars, guiVars>>

----------------------------------------------------------------------------
(* The prober: test_with_requests, test_with_playwright (test_site_access.py) *)

\* s.lower(), on the texts of the model
LowerText(t) ==
    CASE t = "CAPTCHA" -> "captcha"
      [] t = "Application/JSON" -> "application/json"
      [] t = "Retry-After" -> "retry-after"
      [] OTHER -> t

ProbeStatuses == {200, 403}

\* Content-Type values a server sends
ContentTypes == {"text/html", "Application/JSON"}

\* names of response headers as the server cased them (besides Content-Type)
HeaderSets == { {}, {"Retry-After"}, {"x-ratelimit-limit"} }

\* what requests.get(url) meets: an exception or a response
PlainOutcomes(u) ==
    {[kind |-> "error", msg |-> m] : m \in TransportErrors}
    \cup {[kind |-> "response", status |-> st, url |-> f, content_type |-> ct, headers |-> h] :
            st \in ProbeStatuses, f \in FinalUrls(u), ct \in ContentTypes, h \in HeaderSets}

\* what page.goto(url) meets: an exception or a page
RenderedOutcomes(u) ==
    {[kind |-> "error", msg |-> m] : m \in TransportErrors}
    \cup {[kind |-> "page", status |-> st, url |-> u, content |-> c] :
            st \in ProbeStatuses, c \in PageTexts}

\* test_with_requests counting every status below 500 as a success
test_with_requests_Lenient(u, out) ==
    IF out.kind = "error"
    THEN [success |-> FALSE, error |-> out.msg, error_type |-> "Exception"]
    ELSE [success      |-> out.status < 500,
          status_code  |-> out.status,
          redirect_url |-> out.url,
          content_type |-> out.content_type,
          headers      |-> out.headers,
          title        |-> "Home"]

test_with_requests(u, out) ==
    IF out.kind = "error"
    THEN [success |-> FALSE, error |-> out.msg, error_type |-> "Exception"]
    ELSE [success      |-> out.status < 400,
          status_code  |-> out.status,
          redirect_url |-> out.url,
          content_type |-> out.content_type,
          headers      |-> out.headers,
          title        |-> "Home"]

\* blocked_indicators without the CAPTCHA signature
blocked_indicators_NoCaptcha ==
    {"please wait while your request is being verified", "cloudflare",
     "robot check", "are you a robot", "automated requests", "bot detection",
     "access denied", "blocked"}

blocked_indicators ==
    {"please wait while your request is being verified", "cloudflare", "captcha",
     "robot check", "are you a robot", "automated requests", "bot detection",
     "access denied", "blocked"}

\* any(indicator in content for indicator in blocked_indicators),
\* content being page.content().lower()
bot_detected(content) == \E piece \in content : LowerText(piece) \in blocked_indicators

\* browser instances a call of test_with_playwright leaves behind: both the
\* try body and its except branch call browser.close()
test_with_playwright_browsers(out) == sync_playwright_exit(0)

\* test_with_playwright judging success by the status alone
test_with_playwright_StatusOnly(u, out) ==
    IF out.kind = "error"
    THEN [success |-> FALSE, error |-> out.msg, error_type |-> "Exception"]
    ELSE [success      |-> out.status < 400,
          status_code  |-> out.status,
          title        |-> "Home",
          final_url    |-> out.url,
          bot_detected |-> bot_detected(out.content)]

test_with_playwright(u, out) ==
    IF out.kind = "error"
    THEN [success |-> FALSE, error |-> out.msg, error_type |-> "Exception"]
    ELSE [success      |-> out.status < 400 /\ ~bot_detected(out.content),
          status_code  |-> out.status,
          title        |-> "Home",
          final_url    |-> out.url,
          bot_detected |-> bot_detected(out.content)]

----------------------------------------------------------------------------
(* The strategy recommender: recommend_scrape_method *)

NoteJavaScript == <<"Site requires JavaScript">>
NoteBothFailed == <<"Both methods failed">>
NoteEnhanced   == <<"Bot detection present - use enhanced headers">>
NoteStrong     == <<"Strong bot protection - may need proxies or special techniques">>
NoteRedirect(to) == <<"Site redirects to ", to>>
NoteRateLimit  == <<"Rate limiting detected - implement delays">>
NoteJson       == <<"Site returns JSON/JavaScript - parse accordingly">>

rate_limit_headers == {"x-ratelimit-limit", "x-ratelimit-remaining", "retry-after"}

\* IsScriptType matching 'text' as well
IsScriptType_AnyText(content_type) ==
    content_type \in {"application/json", "text/javascript", "text/html"}

\* 'javascript' in content_type or 'json' in content_type
IsScriptType(content_type) == content_type \in {"application/json", "text/javascript"}

\* recommend_scrape_method applying the both-failed rule after the bot rule
recommend_scrape_method_BothFailedLast(rq, br) ==
    LET rq_ok == Get(rq, "success", FALSE)
        br_ok == Get(br, "success", FALSE)
        m1 == "requests_bs4"
        n1 == <<>>
        \* requests failed but browser worked
        js == ~rq_ok /\ br_ok
        m2 == IF js THEN "playwright" ELSE m1
        n2 == IF js THEN Append(n1, NoteJavaScript) ELSE n1
        \* both failed
        both == ~rq_ok /\ ~br_ok
        m3 == IF both THEN "needs_investigation" ELSE m2
        n3 == IF both THEN Append(n2, NoteBothFailed) ELSE n2
        \* browser detected as bot
        bot == Get(br, "bot_detected", FALSE)
        m4 == IF both THEN "needs_investigation"
              ELSE IF bot THEN (IF rq_ok THEN "requests_bs4_enhanced" ELSE "advanced_techniques")
              ELSE m3
        n4 == IF bot THEN Append(n3, IF rq_ok THEN NoteEnhanced ELSE NoteStrong) ELSE n3
        \* redirects
        to == Get(rq, "redirect_url", None)
        n5 == IF to # Get(rq, "original_url", EmptyUrl)
              THEN Append(n4, NoteRedirect(to)) ELSE n4
        \* rate limiting headers
        n6 == IF \E h \in rate_limit_headers : LowerText(h) \in Get(rq, "headers", {})
              THEN Append(n5, NoteRateLimit) ELSE n5
        \* content type
        script == IsScriptType(LowerText(Get(rq, "content_type", "")))
        m7 == IF script /\ m4 = "requests_bs4" THEN "requests_json" ELSE m4
        n7 == IF script THEN Append(n6, NoteJson) ELSE n6
    IN  [recommended_method |-> m7, special_handling |-> n7]

\* recommend_scrape_method letting the content type override any method
recommend_scrape_method_JsonAlways(rq, br) ==
    LET rq_ok == Get(rq, "success", FALSE)
        br_ok == Get(br, "success", FALSE)
        m1 == "requests_bs4"
        n1 == <<>>
        \* requests failed but browser worked
        js == ~rq_ok /\ br_ok
        m2 == IF js THEN "playwright" ELSE m1
        n2 == IF js THEN Append(n1, NoteJavaScript) ELSE n1
        \* both failed
        both == ~rq_ok /\ ~br_ok
        m3 == IF both THEN "needs_investigation" ELSE m2
        n3 == IF both THEN Append(n2, NoteBothFailed) ELSE n2
        \* browser detected as bot
        bot == Get(br, "bot_detected", FALSE)
        m4 == IF bot THEN (IF rq_ok THEN "requests_bs4_enhanced" ELSE "advanced_techniques")
              ELSE m3
        n4 == IF bot THEN Append(n3, IF rq_ok THEN NoteEnhanced ELSE NoteStrong) ELSE n3
        \* redirects
        to == Get(rq, "redirect_url", None)
        n5 == IF to # Get(rq, "original_url", EmptyUrl)
              THEN Append(n4, NoteRedirect(to)) ELSE n4
        \* rate limiting headers
        n6 == IF \E h \in rate_limit_headers : LowerText(h) \in Get(rq, "headers", {})
              THEN Append(n5, NoteRateLimit) ELSE n5
        \* content type
        script == IsScriptType(LowerText(Get(rq, "content_type", "")))
        m7 == IF script THEN "requests_json" ELSE m4
        n7 == IF script THEN Append(n6, NoteJson) ELSE n6
    IN  [recommended_method |-> m7, special_handling |-> n7]

\* recommend_scrape_method whose bot rule starts the notes afresh
recommend_scrape_method_BotReplacesNotes(rq, br) ==
    LET rq_ok == Get(rq, "success", FALSE)
        br_ok == Get(br, "success", FALSE)
        m1 == "requests_bs4"
        n1 == <<>>
        \* requests failed but browser worked
        js == ~rq_ok /\ br_ok
        m2 == IF js THEN "playwright" ELSE m1
        n2 == IF js THEN Append(n1, NoteJavaScript) ELSE n1
        \* both failed
        both == ~rq_ok /\ ~br_ok
        m3 == IF both THEN "needs_investigation" ELSE m2
        n3 == IF both THEN Append(n2, NoteBothFailed) ELSE n2
        \* browser detected as bot
        bot == Get(br, "bot_detected", FALSE)
        m4 == IF bot THEN (IF rq_ok THEN "requests_bs4_enhanced" ELSE "advanced_techniques")
              ELSE m3
        n4 == IF bot THEN <<IF rq_ok THEN NoteEnhanced ELSE NoteStrong>> ELSE n3
        \* redirects
        to == Get(rq, "redirect_url", None)
        n5 == IF to # Get(rq, "original_url", EmptyUrl)
              THEN Append(n4, NoteRedirect(to)) ELSE n4
        \* rate limiting headers
        n6 == IF \E h \in rate_limit_headers : LowerText(h) \in Get(rq, "headers", {})
              THEN Append(n5, NoteRateLimit) ELSE n5
        \* content type
        script == IsScriptType(LowerText(Get(rq, "content_type", "")))
        m7 == IF script /\ m4 = "requests_bs4" THEN "requests_json" ELSE m4
        n7 == IF script THEN Append(n6, NoteJson) ELSE n6
    IN  [recommended_method |-> m7, special_handling |-> n7]

recommend_scrape_method(rq, br) ==
    LET rq_ok == Get(rq, "success", FALSE)
        br_ok == Get(br, "success", FALSE)
        m1 == "requests_bs4"
        n1 == <<>>
        \* requests failed but browser worked
        js == ~rq_ok /\ br_ok
        m2 == IF js THEN "playwright" ELSE m1
        n2 == IF js THEN Append(n1, NoteJavaScript) ELSE n1
        \* both failed
        both == ~rq_ok /\ ~br_ok
        m3 == IF both THEN "needs_investigation" ELSE m2
        n3 == IF both THEN Append(n2, NoteBothFailed) ELSE n2
        \* browser detected as bot
        bot == Get(br, "bot_detected", FALSE)
        m4 == IF bot THEN (IF rq_ok THEN "requests_bs4_enhanced" ELSE "advanced_techniques")
              ELSE m3
        n4 == IF bot THEN Append(n3, IF rq_ok THEN NoteEnhanced ELSE NoteStrong) ELSE n3
        \* redirects
        to == Get(rq, "redirect_url", None)
        n5 == IF to # Get(rq, "original_url", EmptyUrl)
              THEN Append(n4, NoteRedirect(to)) ELSE n4
        \* rate limiting headers
        n6 == IF \E h \in rate_limit_headers : LowerText(h) \in Get(rq, "headers", {})
              THEN Append(n5, NoteRateLimit) ELSE n5
        \* content type
        script == IsScriptType(LowerText(Get(rq, "content_type", "")))
        m7 == IF script /\ m4 = "requests_bs4" THEN "requests_json" ELSE m4
        n7 == IF script THEN Append(n6, NoteJson) ELSE n6
    IN  [recommended_method |-> m7, special_handling |-> n7]

----------------------------------------------------------------------------
(* test_site *)

\* the sites of the batch
SITES == { Url("https", <<"shop", "com">>) }

\* the summary row test_site returns
SiteRow(u, rq, br) ==
    LET rec == recommend_scrape_method(rq, br)
        request_success == Get(rq, "success", FALSE)
        browser_success == Get(br, "success", FALSE)
    IN  [url                 |-> u,
         status              |-> IF request_success \/ browser_success THEN "Success" ELSE "Failed",
         request_access      |-> IF request_success THEN "Yes" ELSE "No",
         request_status_code |-> Get(rq, "status_code", 0),
         browser_access      |-> IF browser_success THEN "Yes" ELSE "No",
         bot_detection       |-> IF Get(br, "bot_detected", FALSE) THEN "Yes" ELSE "No",
         title               |-> Get(rq, "title", Get(br, "title", "Unknown")),
         redirect_url        |-> Get(rq, "redirect_url", Get(br, "final_url", u)),
         scrape_method       |-> rec.recommended_method,
         special_handling    |-> rec.special_handling]

\* IsChallenging looking at the recommended method only
IsChallenging_ByMethod(row) ==
    Get(row, "scrape_method", "") \in {"needs_investigation", "advanced_techniques"}

\* the test process_challenging_sites applies to a row of the report
IsChallenging(row) ==
    \/ Get(row, "request_access", "No") = "No"
    \/ Get(row, "scrape_method", "") \in {"needs_investigation", "advanced_techniques"}

\* the worklist process_challenging_sites builds from the rows of a report
challenging_sites(rows) == SelectSeq(rows, IsChallenging)

\* `request_result = test_with_requests(url)`, then
\* `request_result['original_url'] = url`
ProbeRequests ==
    /\ ppc = "idle"
    /\ Len(report) < MaxSites
    /\ \E u \in SITES :
         /\ site' = u
         /\ \E out \in PlainOutcomes(u) :
              request_result' = [original_url |-> u] @@ test_with_requests(u, out)
    /\ browser_result' = NoDict
    /\ rendered' = NoDict
    /\ ppc' = "requests_done"
    /\ UNCHANGED <<report, scraped, browsers>>
    /\ UNCHANGED <<runVars, batchVars, guiVars>>

\* `browser_result = test_with_playwright(url)`
ProbeBrowser ==
    /\ ppc = "requests_done"
    /\ \E out \in RenderedOutcomes(site) :
         /\ rendered' = out
         /\ browser_result' = test_with_playwright(site, out)
         /\ browsers' = browsers + test_with_playwright_browsers(out)
    /\ ppc' = "browser_done"
    /\ UNCHANGED <<site, request_result, report, scraped>>
    /\ UNCHANGED <<runVars, batchVars, guiVars>>

\* the recommendation and the summary row
Recommend ==
    /\ ppc = "browser_done"
    /\ report' = Append(report, SiteRow(site, request_result, browser_result))
    /\ ppc' = "idle"
    /\ UNCHANGED <<site, request_result, browser_result, rendered, scraped, browsers>>
    /\ UNCHANGED <<runVars, batchVars, guiVars>>

----------------------------------------------------------------------------

\* the state after ProxyScraper.__init__: setup_csv has created the file
\* unless one was already there
Init ==
    /\ pc = "idle"
    /\ url = None
    /\ result = NoDict
    /\ altResult = NoDict
    /\ returned = NoDict
    /\ invoked = <<>>
    /\ saves = <<>>
    /\ run = 0
    /\ file \in {"ok", "empty", "corrupt"}
    /\ store = <<>>
    /\ results = [success |-> 0, failed |-> 0, methods |-> [m \in {} |-> 0]]
    /\ ppc = "idle"
    /\ site = None
    /\ request_result = NoDict
    /\ browser_result = NoDict
    /\ rendered = NoDict
    /\ report = <<>>
    /\ head_checks = NoChecks
    /\ browsers = 0
    /\ scraped = NoDict
    /\ delays = 0
    /\ accessible_sites = <<>>
    /\ batch_pc = "idle"
    /\ batch_results = NoDict
    /\ scraped_data = <<>>
    /\ threads = <<>>
    /\ running = FALSE
    /\ progress = 0
    /\ start_button = "normal"
    /\ view_report_button = "disabled"

Next ==
    \/ StartRun
    \/ Attempt1
    \/ Attempt2
    \/ Attempt3
    \/ Attempt4
    \/ Attempt5
    \/ AltAttempt
    \/ CountResult
    \/ FileRemoved

Spec == Init /\ [][Next]_vars

\* test_site, called by batch_test_sites for each site
NextProbe ==
    \/ ProbeRequests
    \/ ProbeBrowser
    \/ Recommend

SpecProbe == Init /\ [][NextProbe]_vars

----------------------------------------------------------------------------
(* The standard browser scraper: SmartScraper.scrape_with_playwright *)

\* what the call returns: None when the navigation raises, when the status
\* is 400 or more, or when reading the page raises; else the extracted data
scrape_with_playwright(u, out) ==
    IF out.kind # "response" \/ out.status >= 400
    THEN None
    ELSE [url |-> u, final_url |-> out.url, title |-> out.title,
          status_code |-> out.status, error_message |-> "",
          scraper_method |-> "playwright"]

\* browser instances the call leaves behind: browser.close() precedes each
\* return that follows the launch
scrape_with_playwright_browsers(out) == sync_playwright_exit(0)

\* SmartScraper.save_to_csv: appends the row, a failure is logged only
save_to_csv(rows, data, w) == IF w = "ok" THEN Append(rows, data) ELSE rows

----------------------------------------------------------------------------
(* The standard scraper: SmartScraper.scrape_with_requests and               *)
(* scrape_from_report, working through the report create_csv_report wrote   *)

\* pd.read_csv of the report: the joined notes of a row are text, and the
\* empty text of a row without notes is read as NaN
read_report(rows) ==
    [i \in 1..Len(rows) |->
        [rows[i] EXCEPT !.special_handling =
            IF @ = <<>> THEN ReadCell("") ELSE [missing |-> FALSE, text |-> @]]]

\* the accessible filter letting every row of the report through
IsAccessible_Any(row) == TRUE

\* df[(df['request_access'] == 'Yes') | (df['browser_access'] == 'Yes')]
IsAccessible(row) == row.request_access = "Yes" \/ row.browser_access = "Yes"

\* accessible_sites.head(max_sites) when max_sites is given (0: not given)
head(rows, max_sites) ==
    IF max_sites = 0 \/ max_sites >= Len(rows) THEN rows ELSE SubSeq(rows, 1, max_sites)

\* re.search(r"redirects to (https?://[^\s;]+)", special_handling): the
\* destinations the notes name that start with http:// or https://
redirect_match(special_handling) ==
    {special_handling[i][2] : i \in {j \in 1..Len(special_handling) :
         /\ Len(special_handling[j]) = 2
         /\ special_handling[j][1] = "Site redirects to "
         /\ special_handling[j][2].scheme \in {"http", "https"}}}

\* scrape_with_requests not following the redirect note
request_url_Original(u, special_handling) == u

\* the URL scrape_with_requests requests, and stores as the row's url: the
\* destination of a redirect note when there is one
request_url(u, special_handling) ==
    IF special_handling.missing THEN u
    ELSE LET to == redirect_match(special_handling.text)
         IN  IF to = {} THEN u ELSE CHOOSE d \in to : TRUE

\* the call raised, outside of the function's own try
AttributeError == [raised |-> "AttributeError"]

\* scrape_with_requests(url, special_handling), out being what requests.get
\* meets for the requested URL.  NaN is a float and is truthy, so
\* `special_handling and "enhanced" in special_handling.lower()` raises
\* AttributeError before the try block is entered.
scrape_with_requests(u, special_handling, out) ==
    IF special_handling.missing THEN AttributeError
    ELSE IF out.kind = "error" \/ out.status >= 400 THEN None
    ELSE [url |-> request_url(u, special_handling), final_url |-> out.url,
          title |-> out.title, status_code |-> out.status, error_message |-> "",
          scraper_method |-> "requests_bs4"]

\* methods scrape_from_report hands to scrape_with_requests
RequestsMethods == {"requests_bs4", "requests_bs4_enhanced", "requests_json"}

\* number of the site the loop of scrape_from_report is at
BatchIndex == batch_results.success + batch_results.failed + 1

\* the counters after a site was scraped or not
Tally(method, success) ==
    IF success
    THEN [batch_results EXCEPT
            !.success = @ + 1,
            !.methods = (method :> (Get(@, method, 0) + 1)) @@ @]
    ELSE [batch_results EXCEPT !.failed = @ + 1]

\* scrape_from_report(report_file, max_sites=...) reads the report once the
\* prober has written it, and filters it
StartBatch ==
    /\ batch_pc = "idle"
    /\ ppc = "idle"
    /\ Len(report) = MaxSites
    /\ \E max_sites \in {0, 1} :
          LET todo == head(SelectSeq(read_report(report), IsAccessible), max_sites)
          IN  /\ accessible_sites' = todo
              /\ batch_results' = [total |-> Len(todo), success |-> 0, failed |-> 0,
                                   methods |-> [m \in {} |-> 0]]
    /\ batch_pc' = "loop"
    /\ UNCHANGED <<scraped_data, browsers>>
    /\ UNCHANGED <<runVars, probeVars, guiVars>>

\* one pass of the loop over accessible_sites; an exception that leaves the
\* scraper ends the function in its `except Exception`, which returns None
ScrapeSite ==
    /\ batch_pc = "loop"
    /\ BatchIndex <= Len(accessible_sites)
    /\ LET row    == accessible_sites[BatchIndex]
           method == row.scrape_method
       IN  CASE method \in RequestsMethods ->
                  \E out \in Outcomes(request_url(row.url, row.special_handling)) :
                  \E w \in {"ok", "failed"} :
                     LET data == scrape_with_requests(row.url, row.special_handling, out)
                     IN  /\ IF data = AttributeError
                            THEN /\ batch_results' = None
                                 /\ batch_pc' = "returned"
                            ELSE /\ batch_results' = Tally(method, data # None)
                                 /\ batch_pc' = "loop"
                         /\ scraped_data' =
                               IF data \in {AttributeError, None} THEN scraped_data
                               ELSE save_to_csv(scraped_data, [site |-> row.url] @@ data, w)
                         /\ UNCHANGED browsers
             [] method = "playwright" ->
                  \E out \in BrowserOutcomes(row.url) : \E w \in {"ok", "failed"} :
                     LET data == scrape_with_playwright(row.url, out)
                     IN  /\ batch_results' = Tally(method, data # None)
                         /\ batch_pc' = "loop"
                         /\ scraped_data' =
                               IF data = None THEN scraped_data
                               ELSE save_to_csv(scraped_data, [site |-> row.url] @@ data, w)
                         /\ browsers' = browsers + scrape_with_playwright_browsers(out)
             [] OTHER ->    \* unknown or unsupported method, skipping
                  /\ batch_results' = Tally(method, FALSE)
                  /\ batch_pc' = "loop"
                  /\ UNCHANGED <<scraped_data, browsers>>
    /\ UNCHANGED accessible_sites
    /\ UNCHANGED <<runVars, probeVars, guiVars>>

\* `return results` after the last site
ReturnBatch ==
    /\ batch_pc = "loop"
    /\ BatchIndex > Len(accessible_sites)
    /\ batch_pc' = "returned"
    /\ UNCHANGED <<accessible_sites, batch_results, scraped_data, browsers>>
    /\ UNCHANGED <<runVars, probeVars, guiVars>>

\* the prober's batch followed by the standard scraper's
NextBatch ==
    \/ ProbeRequests
    \/ ProbeBrowser
    \/ Recommend
    \/ StartBatch
    \/ ScrapeSite
    \/ ReturnBatch

SpecBatch == Init /\ [][NextBatch]_vars

----------------------------------------------------------------------------
(* The unified front end: UnifiedScraperGUI on the GUI thread, and          *)
(* UnifiedScraper.run_all on the pipeline threads it starts                 *)

\* what the input entry holds when Start is clicked
InputFiles == {"", "business_sites.json"}

\* positions of a pipeline thread: started and not yet in run_all, before
\* each of the five steps, finished
PipelineSteps == {"step1", "step2", "step3", "step4", "step5"}

\* a click on Start: start_scraping, and start_scraping_thread when it gets
\* that far.  A disabled button delivers no click.
StartScraping ==
    /\ start_button = "normal"
    /\ Len(threads) < MaxThreads
    /\ \E input_file \in InputFiles :
          IF running \/ input_file = ""
          THEN UNCHANGED <<threads, start_button, view_report_button>>
          ELSE /\ start_button' = "disabled"
               /\ view_report_button' = "disabled"
               \* threading.Thread(target=self.run_all).start()
               /\ threads' = Append(threads, "spawned")
    /\ UNCHANGED <<running, progress, browsers>>
    /\ UNCHANGED <<runVars, probeVars, batchVars>>

\* the 100 ms timer: update_gui
update_gui ==
    /\ IF ~running /\ progress = 100
       THEN /\ start_button' = "normal"
            /\ view_report_button' = "normal"
       ELSE IF ~running /\ progress > 0
       THEN /\ start_button' = "normal"
            /\ UNCHANGED view_report_button
       ELSE UNCHANGED <<start_button, view_report_button>>
    /\ UNCHANGED <<threads, running, progress, browsers>>
    /\ UNCHANGED <<runVars, probeVars, batchVars>>

\* a pipeline thread enters run_all: running = True, progress = 0
run_all ==
    /\ \E i \in DOMAIN threads :
          /\ threads[i] = "spawned"
          /\ threads' = [threads EXCEPT ![i] = "step1"]
    /\ running' = TRUE
    /\ progress' = 0
    /\ UNCHANGED <<start_button, view_report_button, browsers>>
    /\ UNCHANGED <<runVars, probeVars, batchVars>>

\* step 1: a failure of the site access test ends run_all
run_site_access_test ==
    /\ \E i \in DOMAIN threads : \E ok \in BOOLEAN :
          /\ threads[i] = "step1"
          /\ IF ok
             THEN /\ progress' = 20
                  /\ threads' = [threads EXCEPT ![i] = "step2"]
                  /\ UNCHANGED running
             ELSE /\ running' = FALSE
                  /\ threads' = [threads EXCEPT ![i] = "done"]
                  /\ UNCHANGED progress
    /\ UNCHANGED <<start_button, view_report_button, browsers>>
    /\ UNCHANGED <<runVars, probeVars, batchVars>>

\* steps 2 to 4 (at, reaching mark when they succeed): a failure is logged
\* and the process continues
Step(at, to, mark) ==
    /\ \E i \in DOMAIN threads : \E ok \in BOOLEAN :
          /\ threads[i] = at
          /\ threads' = [threads EXCEPT ![i] = to]
          /\ progress' = IF ok THEN mark ELSE progress
    /\ UNCHANGED <<running, start_button, view_report_button, browsers>>
    /\ UNCHANGED <<runVars, probeVars, batchVars>>

run_standard_scraper ==
    /\ \E i \in DOMAIN threads : threads[i] = "step2"
    /\ Step("step2", "step3", 40)

run_advanced_scraper ==
    /\ \E i \in DOMAIN threads : threads[i] = "step3"
    /\ Step("step3", "step4", 60)

run_proxy_scraper ==
    /\ \E i \in DOMAIN threads : threads[i] = "step4"
    /\ Step("step4", "step5", 80)

\* step 5, and the end of run_all
generate_combined_report ==
    /\ \E i \in DOMAIN threads : \E ok \in BOOLEAN :
          /\ threads[i] = "step5"
          /\ threads' = [threads EXCEPT ![i] = "done"]
          /\ progress' = IF ok THEN 100 ELSE progress
    /\ running' = FALSE
    /\ UNCHANGED <<start_button, view_report_button, browsers>>
    /\ UNCHANGED <<runVars, probeVars, batchVars>>

\* the steps of the pipeline threads
Pipeline ==
    \/ run_all
    \/ run_site_access_test
    \/ run_standard_scraper
    \/ run_advanced_scraper
    \/ run_proxy_scraper
    \/ generate_combined_report

NextGui ==
    \/ StartScraping
    \/ update_gui
    \/ Pipeline

SpecGui == Init /\ [][NextGui]_vars

\* the timer keeps firing and a started thread keeps running
SpecGuiFair == SpecGui /\ WF_vars(update_gui) /\ WF_vars(Pipeline)

----------------------------------------------------------------------------
(* generate_combined_report: the proxy columns of a row of the report *)

\* standard_df[standard_df['url'] == url]
standard_match(standard_df, u) == SelectSeq(standard_df, LAMBDA row : row.url = u)

\* standard_scraping_success of the report row for the site u
standard_scraping_success(standard_df, u) ==
    IF standard_match(standard_df, u) # <<>> THEN "Yes" ELSE "No"

\* proxy_df[proxy_df['url'] == url]
proxy_match(proxy_df, u) == SelectSeq(proxy_df, LAMBDA row : row.url = u)

\* proxy_scraping_success of the report row for u: 'No' unless the first
\* matching row of the store carries a method other than 'none'
proxy_scraping_success(proxy_df, u) ==
    LET matched == proxy_match(proxy_df, u)
    IN  IF matched # <<>>
           /\ ReadCell(matched[1].successful_method) # ReadCell("none")
        THEN "Yes"
        ELSE "No"

\* final_status of the report row for u, no advanced data file being given:
\* the first of the standard and the proxy data that has the site
final_status(standard_df, proxy_df, u) ==
    IF standard_scraping_success(standard_df, u) = "Yes" THEN "Scraped (Standard)"
    ELSE IF proxy_scraping_success(proxy_df, u) = "Yes" THEN "Scraped (Proxy)"
    ELSE "Not Scraped"

----------------------------------------------------------------------------
(* The fetch functions called on their own, once, on a cleaned URL *)

FetchUrls == {clean_url(u) : u \in URLS}

Uncalled == pc = "idle" /\ ppc = "idle" /\ run = 0

CallMethod3 ==
    /\ Uncalled
    /\ \E u \in FetchUrls : \E out \in BrowserOutcomes(u) :
          /\ url' = u
          /\ result' = method3_playwright_basic(u, out, 1)
          /\ browsers' = browsers + method3_browsers(out)
    /\ pc' = "method3"
    /\ UNCHANGED <<altResult, returned, invoked, saves, run, file, store, results,
                   head_checks, delays>>
    /\ UNCHANGED <<probeVars, batchVars, guiVars>>

CallMethod4 ==
    /\ Uncalled
    /\ \E u \in FetchUrls : \E out \in BrowserOutcomes(u) :
          /\ url' = u
          /\ result' = method4_playwright_stealth(u, out, 1)
          /\ browsers' = browsers + method4_browsers(out)
    /\ pc' = "method4"
    /\ UNCHANGED <<altResult, returned, invoked, saves, run, file, store, results,
                   head_checks, delays>>
    /\ UNCHANGED <<probeVars, batchVars, guiVars>>

CallMethod5 ==
    /\ Uncalled
    /\ \E u \in FetchUrls : \E alive \in SUBSET Candidates(u) :
          /\ url' = u
          /\ result' = method5_domain_verification(u, alive, 1)
          /\ head_checks' = [sent     |-> method5_requests(u, alive),
                             answered |-> Candidates(u) \cap alive]
    /\ pc' = "method5"
    /\ UNCHANGED <<altResult, returned, invoked, saves, run, file, store, results,
                   browsers, delays>>
    /\ UNCHANGED <<probeVars, batchVars, guiVars>>

CallTestWithPlaywright ==
    /\ Uncalled
    /\ \E u \in FetchUrls : \E out \in RenderedOutcomes(u) :
          /\ url' = u
          /\ rendered' = out
          /\ browser_result' = test_with_playwright(u, out)
          /\ browsers' = browsers + test_with_playwright_browsers(out)
    /\ pc' = "test_with_playwright"
    /\ UNCHANGED <<result, altResult, returned, invoked, saves, run, file, store, results,
                   head_checks, delays>>
    /\ UNCHANGED <<ppc, site, request_result, report, scraped>>
    /\ UNCHANGED <<batchVars, guiVars>>

CallScrapeWithPlaywright ==
    /\ Uncalled
    /\ \E u \in FetchUrls : \E out \in BrowserOutcomes(u) : \E w \in {"ok", "failed"} :
          LET data == scrape_with_playwright(u, out)
          IN  /\ url' = u
              /\ scraped' = [returned |-> data,
                             rows |-> IF data = None THEN <<>>
                                      ELSE save_to_csv(<<>>, data, w)]
              /\ browsers' = browsers + scrape_with_playwright_browsers(out)
    /\ pc' = "scrape_with_playwright"
    /\ UNCHANGED <<result, altResult, returned, invoked, saves, run, file, store, results,
                   head_checks, delays>>
    /\ UNCHANGED <<ppc, site, request_result, browser_result, rendered, report>>
    /\ UNCHANGED <<batchVars, guiVars>>

NextFetch ==
    \/ CallMethod3
    \/ CallMethod4
    \/ CallMethod5
    \/ CallTestWithPlaywright
    \/ CallScrapeWithPlaywright

SpecFetch == Init /\ [][NextFetch]_vars

----------------------------------------------------------------------------
(* Properties of the escalation controller and the store *)

\* the rows of the store that run r appended
RowsOf(r) == SelectSeq(store, LAMBDA row : row.run = r)

RunRows == RowsOf(run)

\* every save_data call of the current run returned True
AllSaved == \A i \in 1..Len(saves) : saves[i]

\* the first n adapter invocations of the current run failed
FailedUpTo(n) == Len(invoked) >= n /\ \A i \in 1..n : ~invoked[i].success

\* all five rungs failed
Exhausted == pc = "returned" /\ Len(invoked) = 5 /\ FailedUpTo(5)

\* rungs 1-4 failed, rung 5 found an alternative, the stealth retry succeeded
ScenarioD ==
    /\ pc = "returned"
    /\ Len(invoked) = 6
    /\ FailedUpTo(4)
    /\ invoked[5].success
    /\ invoked[6].success

IsPrefix(a, b) == Len(a) <= Len(b) /\ \A i \in 1..Len(a) : a[i] = b[i]

\* C1: once the adapter of a rung k in 1..4 succeeds it is the last adapter
\* invoked in the run, every earlier rung failed, and the run has returned
\* that adapter's result.
C1_StopsAtFirstSuccess ==
    \A i \in 1..Len(invoked) :
        (invoked[i].attempt <= 4 /\ invoked[i].success) =>
            /\ i = Len(invoked)
            /\ \A j \in 1..(i - 1) : ~invoked[j].success /\ invoked[j].method = j
            /\ invoked[i].method = i
            /\ pc = "returned"
            /\ returned = result
            /\ returned.success
            /\ returned.attempt_number = i

C1_Witness ==
    /\ pc = "returned"
    /\ Len(invoked) = 3
    /\ invoked[3].success
    /\ returned.successful_method = "playwright_basic"

C3_OrdinalsIncrease ==
    \A r \in 1..run :
        LET rows == RowsOf(r)
            n(i) == IntOf(rows[i].attempt_number)
        IN  /\ \A i \in 1..Len(rows) : n(i) \in 1..5
            /\ \A i \in 1..(Len(rows) - 1) :
                  \/ n(i) < n(i + 1)
                  \/ /\ i + 1 = Len(rows)
                     /\ n(i) = 5
                     /\ n(i + 1) = 5
                     /\ rows[i].successful_method = "domain_verification"
                     /\ rows[i + 1].successful_method = "domain_verification+playwright_stealth"

C3_Witness ==
    /\ pc = "returned"
    /\ Len(RunRows) = 2
    /\ RunRows[1].attempt_number = "5"
    /\ RunRows[2].attempt_number = "5"

C10_AppendOnly ==
    [][ /\ IsPrefix(store, store')
        /\ Len(store') <= Len(store) + 1
        /\ (saves' = Append(saves, TRUE)) => Len(store') = Len(store) + 1 ]_vars

----------------------------------------------------------------------------
(* Properties of the prober and the recommender *)

\* test_site has just returned: request_result, browser_result and rendered
\* are those of the last row of the report
Tested == ppc = "idle" /\ Len(report) > 0

LastRow == report[Len(report)]

\* the rendered fetch produced a page whose content holds no bot signature
RenderedClean ==
    /\ rendered.kind = "page"
    /\ \A piece \in rendered.content : LowerText(piece) \notin blocked_indicators

\* the rendered fetch produced a page whose content holds "captcha"
RenderedCaptcha ==
    /\ rendered.kind = "page"
    /\ \E piece \in rendered.content : LowerText(piece) = "captcha"

\* the plain fetch answered with status st
PlainStatus(st) == Get(request_result, "status_code", 0) = st

\* the plain fetch ended at the requested URL, with no rate-limit header in
\* lower case and a Content-Type naming neither javascript nor json
PlainUnremarkable ==
    /\ Get(request_result, "redirect_url", None) = site
    /\ Get(request_result, "headers", {}) \cap rate_limit_headers = {}
    /\ LowerText(Get(request_result, "content_type", "")) \notin {"application/json", "text/javascript"}

\* C7 (as claimed): plain fetch with status 200 and a rendered page without
\* bot signature give requests_bs4 and no note.
C7_PlainNoNotes ==
    (Tested /\ PlainStatus(200) /\ RenderedClean) =>
        /\ LastRow.scrape_method = "requests_bs4"
        /\ LastRow.special_handling = <<>>

\* C7 (amended): plain fetch with status 200 that ended at the requested URL,
\* without lower-case rate-limit header and without javascript/json content
\* type, and a rendered page without bot signature, give requests_bs4 and no
\* note.
C7_PlainNoNotesUnremarkable ==
    (Tested /\ PlainStatus(200) /\ RenderedClean /\ PlainUnremarkable) =>
        /\ LastRow.scrape_method = "requests_bs4"
        /\ LastRow.special_handling = <<>>

C7_Witness ==
    Tested /\ PlainStatus(200) /\ RenderedClean /\ PlainUnremarkable
    /\ LastRow.request_access = "Yes"

\* C8 (as claimed): plain fetch with status 403 and a rendered page with
\* status 200 and no bot signature give playwright and exactly the
\* JavaScript note.
C8_RenderedOneNote ==
    (Tested /\ PlainStatus(403) /\ RenderedClean /\ rendered.status = 200) =>
        /\ LastRow.scrape_method = "playwright"
        /\ LastRow.special_handling = <<NoteJavaScript>>

\* C8 (amended): the same when moreover the plain fetch ended at the
\* requested URL, without lower-case rate-limit header and without
\* javascript/json content type.
C8_RenderedOneNoteUnremarkable ==
    (Tested /\ PlainStatus(403) /\ RenderedClean /\ rendered.status = 200
        /\ PlainUnremarkable) =>
        /\ LastRow.scrape_method = "playwright"
        /\ LastRow.special_handling = <<NoteJavaScript>>

C8_Witness ==
    Tested /\ PlainStatus(403) /\ RenderedClean /\ rendered.status = 200
    /\ PlainUnremarkable /\ LastRow.browser_access = "Yes"

\* C9: when the rendered content holds "captcha" and the plain fetch
\* succeeded, the method is requests_bs4_enhanced and the notes include the
\* bot-detection note.
C9_CaptchaEnhanced ==
    (Tested /\ RenderedCaptcha /\ Get(request_result, "success", FALSE)) =>
        /\ LastRow.scrape_method = "requests_bs4_enhanced"
        /\ \E i \in 1..Len(LastRow.special_handling) :
              LastRow.special_handling[i] = NoteEnhanced

C9_Witness ==
    Tested /\ RenderedCaptcha /\ Get(request_result, "success", FALSE)
    /\ LastRow.bot_detection = "Yes"

----------------------------------------------------------------------------
(* Properties of the store and of the run's outcome *)

\* the dict handed to the save_data call of a step that made one
SavedData == IF pc = "alt" THEN altResult' ELSE result'

\* an optional field of a dict: absent, or present with its text
Field(data, k) ==
    IF k \in DOMAIN data THEN [missing |-> FALSE, text |-> data[k]]
    ELSE [missing |-> TRUE, text |-> ""]

\* C11: a save_data call that returns True adds one row to the store, and
\* reading that row back gives the optional text fields title and
\* error_message of the saved record as they were: absent when absent, the
\* same text when present.
C11_RoundTrip ==
    [][ (saves' = Append(saves, TRUE)) =>
            /\ Len(store') = Len(store) + 1
            /\ \A k \in {"title", "error_message"} :
                  ReadCell(store'[Len(store')][k]) = Field(SavedData, k) ]_vars

\* C12: a run during which a save_data call failed does not come back to its
\* caller with an ordinary result dict.
C12_FailureSurfaced ==
    (pc = "returned" /\ ~AllSaved) => returned = NoDict

\* C13: a save_data call that finds the backing file missing, empty or
\* corrupt does not fail because of the file: with the write itself going
\* through, it leaves a well-formed file holding the new row.
C13_BadFileRecreated ==
    [][ (file \in {"missing", "empty", "corrupt"} /\ Len(saves') = Len(saves) + 1) =>
            LET after == save_data(file, store, url, SavedData, run, "ok")
            IN  /\ after.ok
                /\ after.file = "ok"
                /\ after.store = <<NewRow(url, SavedData, run)>> ]_vars

\* the rows of the current run labelled "none"
NoneRows == SelectSeq(RunRows, LAMBDA row : row.successful_method = "none")

ScenarioE ==
    /\ pc = "returned"
    /\ Len(invoked) = 6
    /\ FailedUpTo(4)
    /\ invoked[5].success
    /\ ~invoked[6].success

\* C15: when rungs 1-4 fail, rung 5 finds an alternative and the stealth
\* retry on it fails, the run returns the domain-verification result
\* (success, labelled domain_verification, final_url the alternative that
\* was retried), the store holds no "none" row for the run, and
\* process_challenging_sites counts the run as a success.
C15_FailedRetryStillSuccess ==
    [][ ScenarioE' =>
          /\ returned'.success
          /\ returned'.successful_method = "domain_verification"
          /\ returned'.final_url = invoked'[6].url
          /\ Len(NoneRows') = 0
          /\ (ScenarioE /\ results' # results) =>
                /\ results'.success = results.success + 1
                /\ results'.failed = results.failed
                /\ results'.methods["domain_verification"] =
                      Get(results.methods, "domain_verification", 0) + 1 ]_vars

C15_Witness ==
    /\ ScenarioE
    /\ Counted
    /\ results.success = run
    /\ "domain_verification" \in DOMAIN results.methods

\* the dicts adapters have returned that the run still holds
AdapterResults == {result, altResult, returned} \ {NoDict}

\* C16: every dict an adapter returned says whether the attempt succeeded; a
\* failed one carries a non-empty error_message and a successful one carries
\* no error_message.
C16_ResultOrError ==
    \A r \in AdapterResults :
        /\ "success" \in DOMAIN r
        /\ r.success \in BOOLEAN
        /\ r.success => "error_message" \notin DOMAIN r
        /\ ~r.success => ("error_message" \in DOMAIN r /\ r.error_message # "")

\* rung 3 failed on a page call after its navigation was answered
C16_Witness ==
    /\ pc = "m4"
    /\ result \in AdapterResults
    /\ ~result.success
    /\ Get(result, "status_code", 0) = 200
    /\ result.error_message \in TransportErrors

----------------------------------------------------------------------------
(* Properties of the worklist and of the recommender's rules *)

----------------------------------------------------------------------------
(* Properties of what an escalation run accepts as a success *)

\* C18: no dict an adapter returned as a success has an HTTP status of 400
\* or more, and no row of the run other than a "none" row records one.
C18_NoSuccessOnHttpError ==
    /\ \A r \in AdapterResults :
          Get(r, "success", FALSE) => Get(r, "status_code", 0) < 400
    /\ \A i \in 1..Len(RunRows) :
          RunRows[i].successful_method # "none" => RunRows[i].status_code \notin {"404", "404.0"}

\* C19: no dict returned as a success by an adapter that fetched a page has
\* a page matching a bot-wall signature.
C19_BotWallIsFailure ==
    \A r \in AdapterResults :
        (Get(r, "success", FALSE) /\ "title" \in DOMAIN r) =>
            ~bot_detected(r.content_summary)

----------------------------------------------------------------------------
(* Properties of the recommender's bot rule *)

\* the special_handling notes of the last row
LastNotes == {LastRow.special_handling[i] : i \in 1..Len(LastRow.special_handling)}

\* C20: when the rendered probe reports bot detection, the recommended
\* method is requests_bs4_enhanced if the plain probe succeeded and
\* advanced_techniques if it failed, whatever the earlier rules chose, and
\* the note of that branch is among the notes.
C20_BotRuleOverrides ==
    (Tested /\ Get(browser_result, "bot_detected", FALSE)) =>
        IF Get(request_result, "success", FALSE)
        THEN /\ LastRow.scrape_method = "requests_bs4_enhanced"
             /\ NoteEnhanced \in LastNotes
        ELSE /\ LastRow.scrape_method = "advanced_techniques"
             /\ NoteStrong \in LastNotes

\* both probes failed and the rendered one met a bot wall: the both-failed
\* rule fired and the bot rule replaced its method
C20_Witness ==
    /\ Tested
    /\ Get(browser_result, "bot_detected", FALSE)
    /\ ~Get(request_result, "success", FALSE)
    /\ NoteBothFailed \in LastNotes
    /\ LastRow.scrape_method = "advanced_techniques"

----------------------------------------------------------------------------
(* Properties of the recommender's content-type rule and of its notes *)

\* what the last test_site call found
PlainOk     == Get(request_result, "success", FALSE)
RenderedOk  == Get(browser_result, "success", FALSE)
BotReported == Get(browser_result, "bot_detected", FALSE)
ScriptPayload ==
    LowerText(Get(request_result, "content_type", "")) \in {"application/json", "text/javascript"}

\* C21: with a script/JSON content type the parsing note is appended, and
\* the method becomes requests_json exactly when no earlier rule had moved
\* it from requests_bs4; a method chosen by an earlier rule stays. Without
\* such a content type there is neither requests_json nor the note.
C21_JsonOverridesDefaultOnly ==
    Tested =>
        IF ScriptPayload
        THEN /\ NoteJson \in LastNotes
             /\ LastRow.scrape_method =
                   (IF BotReported
                    THEN (IF PlainOk THEN "requests_bs4_enhanced" ELSE "advanced_techniques")
                    ELSE IF PlainOk THEN "requests_json"
                    ELSE IF RenderedOk THEN "playwright"
                    ELSE "needs_investigation")
        ELSE /\ NoteJson \notin LastNotes
             /\ LastRow.scrape_method # "requests_json"

\* a JSON answer with status 403 and a page that renders: playwright stays
C21_Witness ==
    /\ Tested
    /\ ScriptPayload
    /\ LastRow.scrape_method = "playwright"
    /\ NoteJson \in LastNotes

\* the note of a rule when it fired, nothing otherwise
NoteIf(fired, note) == IF fired THEN <<note>> ELSE <<>>

\* the plain probe's final URL as the recommender reads it, and the rules on
\* it that fired in the last test_site call
PlainFinalUrl == Get(request_result, "redirect_url", None)
RedirectFired == PlainFinalUrl # site
RateLimitFired == Get(request_result, "headers", {}) \cap rate_limit_headers # {}

\* C22: the notes of a row are the notes of the rules that fired, each once,
\* in the order JS-required, both-failed, bot-detection, redirect,
\* rate-limit, content-type; a rule that replaces the method removes none.
C22_NotesAccumulateInOrder ==
    Tested =>
        LastRow.special_handling =
            NoteIf(~PlainOk /\ RenderedOk, NoteJavaScript)
            \o NoteIf(~PlainOk /\ ~RenderedOk, NoteBothFailed)
            \o NoteIf(BotReported, IF PlainOk THEN NoteEnhanced ELSE NoteStrong)
            \o NoteIf(RedirectFired, NoteRedirect(PlainFinalUrl))
            \o NoteIf(RateLimitFired, NoteRateLimit)
            \o NoteIf(ScriptPayload, NoteJson)

\* five rules fired: both failed, bot wall, redirect, rate limit, JSON
C22_Witness ==
    /\ Tested
    /\ Len(LastRow.special_handling) = 5
    /\ LastRow.special_handling[1] = NoteBothFailed
    /\ LastRow.special_handling[2] = NoteStrong
    /\ LastRow.scrape_method = "advanced_techniques"

----------------------------------------------------------------------------
(* Properties of the redirect rule, the rate-limit rule and the probe results *)

\* the redirect notes of the last row
RedirectNotes == {n \in LastNotes : Len(n) = 2 /\ n[1] = "Site redirects to "}

\* the plain probe got a response, which has a final URL
PlainAnswered == "redirect_url" \in DOMAIN request_result

\* C23: the last row has a redirect note exactly when the plain probe got a
\* response whose final URL differs from the requested URL, and the note
\* names that final URL.
C23_RedirectNoteIffMoved ==
    Tested =>
        /\ RedirectNotes # {} <=> (PlainAnswered /\ request_result.redirect_url # site)
        /\ \A n \in RedirectNotes : PlainAnswered /\ n[2] = request_result.redirect_url

\* C24: when a header of the plain probe's response is a rate-limit header
\* under any casing of its name, the throttling note is among the notes.
C24_RateLimitAnyCasing ==
    (Tested /\ \E h \in Get(request_result, "headers", {}) :
                    LowerText(h) \in rate_limit_headers)
        => NoteRateLimit \in LastNotes

\* the probe results test_site holds
ProbeResults == {request_result, browser_result} \ {NoDict}

\* C25: a probe result has success true or an error set, never both and
\* never neither.
C25_SuccessXorError ==
    \A r \in ProbeResults :
        Get(r, "success", FALSE) <=> ~("error" \in DOMAIN r \/ "error_type" \in DOMAIN r)

\* the rendered probe loaded a page with a status below 400 that shows a
\* bot-wall signature
RenderedWalled ==
    /\ rendered.kind = "page"
    /\ rendered.status < 400
    /\ bot_detected(rendered.content)

\* C26 (as claimed): a page that renders but is walled gives a rendered
\* probe result with success and bot_detected both true, and a row with
\* browser_access Yes and bot_detection Yes.
C26_WalledYetSuccess ==
    (Tested /\ RenderedWalled) =>
        /\ browser_result.success
        /\ browser_result.bot_detected
        /\ LastRow.browser_access = "Yes"
        /\ LastRow.bot_detection = "Yes"

\* C26 (amended): no rendered probe result has success and bot_detected both
\* true, and no row shows browser_access Yes with bot_detection Yes; a page
\* that renders but is walled is reported as bot_detected with success false.
C26_WalledNeverSuccess ==
    /\ ~(Get(browser_result, "success", FALSE) /\ Get(browser_result, "bot_detected", FALSE))
    /\ \A i \in 1..Len(report) :
          ~(report[i].browser_access = "Yes" /\ report[i].bot_detection = "Yes")
    /\ (ppc = "browser_done" /\ RenderedWalled) =>
          (browser_result.bot_detected /\ ~browser_result.success)

C26_Witness ==
    /\ Tested
    /\ RenderedWalled
    /\ LastRow.browser_access = "No"
    /\ LastRow.bot_detection = "Yes"

----------------------------------------------------------------------------
(* Properties of the fetch functions called on their own *)

\* the candidate list of the URL method 5 was called on
Method5Candidates == alt_domains(get_domain(url))

\* positions of the candidate list whose check answers below 400
AnsweringAt == {i \in 1..Len(Method5Candidates) : Method5Candidates[i] \in head_checks.answered}

\* C27: method 5 checks the candidates in list order and stops at the first
\* one whose check answers below 400: it returns success with final_url that
\* candidate, having checked every earlier candidate and none after it; when
\* no candidate answers it has checked them all and returns success false.
C27_FirstResponderWins ==
    pc = "method5" =>
        /\ IsPrefix(head_checks.sent, Method5Candidates)
        /\ IF AnsweringAt # {}
           THEN \E k \in AnsweringAt :
                   /\ \A j \in AnsweringAt : k <= j
                   /\ result.success
                   /\ result.final_url = Method5Candidates[k]
                   /\ Len(head_checks.sent) = k
           ELSE /\ ~result.success
                /\ head_checks.sent = Method5Candidates

\* the first two candidates do not answer, a later one and one after it do
C27_Witness ==
    /\ pc = "method5"
    /\ result.success
    /\ Len(head_checks.sent) > 2
    /\ \E i, j \in AnsweringAt :
          i < j /\ Method5Candidates[i] # Method5Candidates[j]

\* a browser-based fetch function has returned
BrowserFetchReturned ==
    pc \in {"method3", "method4", "test_with_playwright", "scrape_with_playwright"}

----------------------------------------------------------------------------
(* Properties of the combined report and of the grouping of store rows *)

\* C29: the combined report marks proxy_scraping_success 'Yes' for every URL
\* that has at least one row in the store whose successful_method is not
\* 'none', wherever that row stands among the rows of the URL.
C29_AnySuccessRowIsYes ==
    file = "ok" =>
        \A i \in 1..Len(store) :
            store[i].successful_method # "none" =>
                proxy_scraping_success(store, store[i].url) = "Yes"

\* C30: grouping the rows of the store by (url, session_id) gives back the
\* runs: two rows that agree on both were appended by one invocation of
\* scrape_url_with_multiple_attempts, also when a URL occurs more than once
\* in a worklist.
C30_GroupsAreRuns ==
    \A i, j \in 1..Len(store) :
        (store[i].url = store[j].url /\ store[i].session_id = store[j].session_id)
            => store[i].run = store[j].run

----------------------------------------------------------------------------
(* Properties of the standard scraper's batch *)

\* C31: scrape_from_report works through every accessible site of a report
\* of the prober and returns its counters, with success + failed = total;
\* no site makes it stop early or return None.
C31_BatchCountsEverySite ==
    batch_pc = "returned" =>
        /\ batch_results # None
        /\ batch_results.total = Len(accessible_sites)
        /\ batch_results.success + batch_results.failed = batch_results.total

----------------------------------------------------------------------------
(* Properties of the unified front end *)

\* C32: at most one pipeline thread is executing run_all at any time,
\* whatever the interleaving of Start clicks, timer ticks and thread steps.
C32_SinglePipeline ==
    Cardinality({i \in DOMAIN threads : threads[i] \in PipelineSteps}) <= 1

\* C33: after Start was accepted (the button is disabled), the Start button
\* is eventually enabled again, whether run_all succeeds or fails at any step.
C33_StartReenabled == (start_button = "disabled") ~> (start_button = "normal")

----------------------------------------------------------------------------
(* Properties of the combined report over the standard scraper's rows *)

\* C34: every site of the report for which the standard scraper stored a
\* row gets standard_scraping_success 'Yes' and final_status
\* 'Scraped (Standard)' in the combined report, also when the site's notes
\* name a redirect destination.
C34_StoredSiteIsStandard ==
    \A i \in 1..Len(scraped_data) :
        /\ standard_scraping_success(scraped_data, scraped_data[i].site) = "Yes"
        /\ final_status(scraped_data, store, scraped_data[i].site) = "Scraped (Standard)"

----------------------------------------------------------------------------
(* Properties of the candidate list of method 5 *)

\* the site's name label: the first label of the host after a leading www
NameLabel ==
    LET host == get_domain(url)
    IN  IF Head(host) = "www" /\ Len(host) > 1 THEN host[2] ELSE host[1]

\* the hosts name.com, name.net and name.org, with and without www
SwapHosts(name) ==
    UNION {{<<name, tld>>, <<"www", name, tld>>} : tld \in {"com", "net", "org"}}

\* C35: for a host name.tld, with or without a leading www, every TLD-swap
\* candidate of method 5 (the candidates after the four scheme and www
\* variants) keeps the name label: its host is name.com, name.net or
\* name.org, with or without www.
C35_SwapKeepsName ==
    pc = "method5" =>
        \A i \in 5..Len(Method5Candidates) :
            Method5Candidates[i].host \in SwapHosts(NameLabel)

----------------------------------------------------------------------------
(* Properties of the length of an escalation run *)

\* the positions of scrape_url_with_multiple_attempts in the order it goes
\* through them: at position n, exactly n - 1 adapters have been invoked
Position ==
    CASE pc = "m1" -> 1 [] pc = "m2" -> 2 [] pc = "m3" -> 3 [] pc = "m4" -> 4
      [] pc = "m5" -> 5 [] pc = "alt" -> 6 [] OTHER -> 0

\* the run makes progress with every adapter it invokes, invokes at most six
\* (rungs 1-5 and one stealth retry), sleeps at most four times, and returns
\* a success or the exhausted result
BoundedRun ==
    /\ Position > 0 => Len(invoked) = Position - 1
    /\ Len(invoked) <= 6
    /\ delays <= 4
    /\ \A i \in 1..Len(invoked) : i <= 5 => invoked[i].method = i
    /\ Len(invoked) = 6 => invoked[6].method = 4 /\ invoked[5].success
    /\ pc = "returned" =>
          \/ returned.success
          \/ Exhausted /\ returned.successful_method = "none"

\* C36: scrape_url_with_multiple_attempts ends after at most 6 adapter
\* invocations and at most 4 delays, with a success or with the exhausted
\* result, and no rung is invoked twice on the original URL.
C36_BoundedNoRepeat ==
    /\ BoundedRun
    /\ \A i, j \in 1..Len(invoked) :
          (i # j /\ invoked[i].url = url /\ invoked[j].url = url)
              => invoked[i].method # invoked[j].method

----------------------------------------------------------------------------
(* Properties of the number of rows a run appends *)

\* C37: with every save_data call of the run returning True, a run that
\* has returned has appended exactly one row, or exactly two (the
\* domain_verification row followed by the combined row) when rung 5 and the
\* stealth retry both succeeded; while the run is still climbing, the rungs
\* that failed have contributed no row.
C37_RowsPerRun ==
    AllSaved =>
        /\ pc \in {"m1", "m2", "m3", "m4", "m5"} => Len(RunRows) = 0
        /\ pc = "alt" => Len(RunRows) = 1
        /\ pc = "returned" =>
              IF Len(invoked) = 6 /\ invoked[5].success /\ invoked[6].success
              THEN /\ Len(RunRows) = 2
                   /\ RunRows[1].successful_method = "domain_verification"
                   /\ RunRows[2].successful_method = "domain_verification+playwright_stealth"
              ELSE Len(RunRows) = 1

\* rung 5 found an alternative, the stealth retry failed: the run has
\* returned with one row, that of the domain verification
C37_Witness ==
    /\ pc = "returned"
    /\ AllSaved
    /\ Len(invoked) = 6
    /\ ~invoked[6].success
    /\ Len(RunRows) = 1
    /\ RunRows[1].successful_method = "domain_verification"

----------------------------------------------------------------------------
(* Properties of the methods scrape_from_report meets *)

\* the methods scrape_from_report has a branch for
KnownMethods == {"requests_bs4", "requests_bs4_enhanced", "playwright", "requests_json"}

\* C38: every row of a report of test_site that passes the accessible filter
\* of scrape_from_report recommends requests_bs4, requests_bs4_enhanced,
\* playwright or requests_json, so every site scrape_from_report works
\* through is dispatched to a scraper and none is skipped as unknown.
C38_AccessibleMethodKnown ==
    /\ \A i \in 1..Len(report) :
          IsAccessible(read_report(report)[i]) => report[i].scrape_method \in KnownMethods
    /\ \A i \in 1..Len(accessible_sites) :
          accessible_sites[i].scrape_method \in KnownMethods

\* a site that only the browser probe reached passed the filter and was
\* scraped with playwright
C38_Witness ==
    /\ batch_pc = "returned"
    /\ batch_results # None
    /\ Get(batch_results.methods, "playwright", 0) = 1
    /\ accessible_sites[1].request_access = "No"
    /\ accessible_sites[1].browser_access = "Yes"
====
